---- MODULE Spec2Model ----
(***************************************************************************)
(* Model of the window-dataset generators of Blender_dataset/blender_scripts: *)
(*   data_generation_no_background.py    (variant "nobg", one camera)       *)
(*   data_generation_with_background.py  (variant "bg",   one camera)       *)
(*   data_generator.py                   (variant "multi", N_CAMERAS)       *)
(*                                                                         *)
(* Numbers.  Lengths are centimetres, angles are whole degrees, object     *)
(* scales are hundredths.  Floating point values are fixed point: camera    *)
(* axes and sines are thousandths, the normalized view coordinates (u, v)  *)
(* returned by world_to_camera_view are ten-thousandths (10000 = 1.0).     *)
(* Every random.uniform / randint / choice / random call draws from a       *)
(* small tuple of sample values of its range.                              *)
(*                                                                         *)
(* The Blender API is taken as the scripts read: matrix_world is the       *)
(* transform of the location, rotation and scale last assigned.            *)
(***************************************************************************)
EXTENDS Integers, Sequences, FiniteSets, TLC

VARIABLES
    variant,    \* which script runs: "nobg", "bg" or "multi"
    textureOk,  \* the window texture file exists
    nbg,        \* len(bg_files), with_background only
    seed,       \* SEED
    seeded,     \* the random stream is the seeded generator's (else any draw)
    wide,       \* the pose ranges are sampled densely (one call) or thinly
    rng,        \* state of the random module's generator
    run,        \* number of the run of the script (1, 2)
    pc,         \* position in the script
    f,          \* frame index of the render loop
    cams,       \* camera objects: loc, axes right/up/fwd, lens
    ci,         \* index of scene.camera in cams
    lights,     \* number of objects in the lights collection
    win,        \* window pool (the _RGB objects of the pairs in "multi")
    twin,       \* the _MSK twins of the pairs ("multi")
    nwin,       \* n_windows of the frame
    cur,        \* index of the window being placed
    tries,      \* attempts made by the running sampling loop
    fovOk,      \* value returned by ensure_in_fov
    visible,    \* visible_windows: indices into win
    centers,    \* pts of sample_nonoverlap
    occ,        \* objects of the Occluders collection
    world,      \* scene.world: "none" or "black"
    rs,         \* scene.render settings
    excl,       \* exclude flag of each layer collection ("multi")
    files,      \* names of the files written
    kpt,        \* the keypoint file written by the frame in progress
    journal,    \* keypoint payloads written by this run (seeded runs)
    runs,       \* journals of the finished runs (seeded runs)
    tin,        \* input of the function under test
    tout        \* its result

\* ------------------------------------------------------------------------
\* Bounds of the model (the scripts' values are larger; see each comment)
\* ------------------------------------------------------------------------
\* frames per run (NUM_IMAGES = 2000 / 6, NUM_TOTAL_IMAGES = 12000)
NumImages == 2
\* size of the window pool (MAX_WINDOWS = 5 / 4)
MaxWindows == 2
\* attempts of ensure_in_fov (the loop passes max_tries = 140)
MaxTries == 2
\* attempts of sample_nonoverlap (the loop stops at tries = 250)
MaxCenterTries == 2
\* upper end of the occluder count (NUM_OCCLUDERS_MAX = 4; randint(0, 2))
MaxOccluders == 1
\* seeds tried by the seeded specification (SEED = 11 / 42)
NumSeeds == 6
\* data_generation_with_background.py: the frames above this one are the
\* augmented ones (NUM_BASE_IMAGES = 2000 of NUM_TOTAL_IMAGES = 12000)
NumBaseImages == 1

\* ------------------------------------------------------------------------
\* Program constants
\* ------------------------------------------------------------------------
IMG_W == 640
IMG_H == 648
CAMERA_LENS_MM == 45
MIN_SKEW_DEG == 6
MAX_SKEW_DEG == 15
NUM_OCCLUDERS_MIN == 1
N_CAMERAS == 3
NUM_RANDOM_LIGHTS == 4
\* lower end of WINDOW_SIZE_RANGE = (0.50, 1.10), in cm
WINDOW_SIZE_MIN == 50
\* sample_nonoverlap(n, d=0.38), in cm
MIN_SEP == 38
\* fallback scale (0.35, 0.35, 1.0)
FALLBACK_SCALE == 35
\* sample_nonoverlap draws uniform(-0.9, 0.9), uniform(-0.6, 0.6), in cm
CENTER_X_MAX == 90
CENTER_Y_MAX == 60

\* ------------------------------------------------------------------------
\* Arithmetic helpers
\* ------------------------------------------------------------------------
Abs(a) == IF a < 0 THEN -a ELSE a
Max2(a, b) == IF a >= b THEN a ELSE b
Min2(a, b) == IF a <= b THEN a ELSE b

\* quotient rounded down, for a divisor of either sign
Div(n, d) == IF d < 0 THEN (-n) \div (-d) ELSE n \div d

\* product of two thousandths
Mul(a, b) == (a * b) \div 1000

\* math.sin / math.cos of math.radians(a), in thousandths, for the sampled
\* angles
SinPos(a) ==
    CASE a = 0   -> 0
      [] a = 6   -> 105
      [] a = 15  -> 259
      [] a = 25  -> 423
      [] a = 37  -> 602
      [] a = 90  -> 1000
      [] a = 120 -> 866
      [] a = 240 -> -866
      [] OTHER   -> 0
CosPos(a) ==
    CASE a = 0   -> 1000
      [] a = 6   -> 995
      [] a = 15  -> 966
      [] a = 25  -> 906
      [] a = 37  -> 799
      [] a = 90  -> 0
      [] a = 120 -> -500
      [] a = 240 -> -500
      [] OTHER   -> 1000
Sin(a) == IF a < 0 THEN -SinPos(-a) ELSE SinPos(a)
Cos(a) == IF a < 0 THEN CosPos(-a) ELSE CosPos(a)

\* Python 3 round(): to nearest, ties to the even integer.  n / d, d > 0.
PyRound(n, d) ==
    LET q == n \div d
        r == n - q * d
    IN  IF 2 * r < d THEN q
        ELSE IF 2 * r > d THEN q + 1
        ELSE IF q % 2 = 0 THEN q ELSE q + 1

Dot(a, b) == a[1] * b[1] + a[2] * b[2] + a[3] * b[3]

\* ------------------------------------------------------------------------
\* Geometry helpers
\* ------------------------------------------------------------------------
\* bmesh.ops.create_grid(x_segments=1, y_segments=1, size): the 4 vertices
GridVerts == << <<-1, -1>>, <<1, -1>>, <<-1, 1>>, <<1, 1>> >>

\* half side of the window mesh, cm: create_grid size = 1.0 in the single
\* camera scripts, 0.5 in data_generator.py
MeshHalf(var) == IF var = "multi" THEN 50 ELSE 100

\* ob.matrix_world @ v.co for the 4 vertices: Euler XYZ rotation (Rz Ry Rx),
\* scale on local x and y, translation
plane_world_corners(var, w) ==
    LET h  == (w.scale * MeshHalf(var)) \div 100
        sx == Sin(w.rot[1])  cx == Cos(w.rot[1])
        sy == Sin(w.rot[2])  cy == Cos(w.rot[2])
        sz == Sin(w.rot[3])  cz == Cos(w.rot[3])
        c1 == << Mul(cy, cz), Mul(cy, sz), -sy >>
        c2 == << Mul(Mul(sx, sy), cz) - Mul(cx, sz),
                 Mul(Mul(sx, sy), sz) + Mul(cx, cz),
                 Mul(sx, cy) >>
    IN  [ i \in 1..4 |->
            LET vx == GridVerts[i][1] * h
                vy == GridVerts[i][2] * h
            IN  << w.loc[1] + (c1[1] * vx + c2[1] * vy) \div 1000,
                   w.loc[2] + (c1[2] * vx + c2[2] * vy) \div 1000,
                   w.loc[3] + (c1[3] * vx + c2[3] * vy) \div 1000 >> ]

\* keeps the fixed point value of u or v inside the integer range
Sat(a) == Max2(-3000000, Min2(3000000, a))

\* bpy_extras.object_utils.world_to_camera_view(scene, cam, wp) for a
\* perspective camera with the default 36 mm sensor, fitted to the larger
\* (vertical) side of the 640 x 648 image: (u, v) in ten-thousandths, z the
\* depth in front of the camera in mm.  z = 0 gives (0.5, 0.5, 0.0).
world_to_camera_view(cam, wp) ==
    LET d  == << wp[1] - cam.loc[1], wp[2] - cam.loc[2], wp[3] - cam.loc[3] >>
        xc == Dot(d, cam.right) \div 100
        yc == Dot(d, cam.up) \div 100
        z  == Dot(d, cam.fwd) \div 100
    IN  IF z = 0 THEN [x |-> 5000, y |-> 5000, z |-> 0]
        ELSE [ x |-> Sat(5000 + Div(xc * 9 * cam.lens * 125, 4 * z)),
               y |-> Sat(5000 + Div(yc * cam.lens * 2500, 9 * z)),
               z |-> z ]

\* one corner passes the test of all_corners_in_frame
CornerVisible(uvw) ==
    /\ 0 <= uvw.x /\ uvw.x <= 10000
    /\ 0 <= uvw.y /\ uvw.y <= 10000
    /\ uvw.z > 0

\* a test that looks at the first corner only
all_corners_in_frame_first_only(cam, corners) ==
    CornerVisible(world_to_camera_view(cam, corners[1]))

\* all_corners_in_frame(cam, corners)
all_corners_in_frame(cam, corners) ==
    \A i \in 1..4 : CornerVisible(world_to_camera_view(cam, corners[i]))

\* key=lambda p: (-p[1], p[0])
KeyNegYThenX(p, q) == \/ -p[2] < -q[2]
                      \/ (-p[2] = -q[2] /\ p[1] < q[1])
\* key=lambda p: p[0]
KeyX(p, q) == p[1] < q[1]

\* key(p) < key(q) for the two keys that order_tl_tr_br_bl sorts by
KeyLess(key, p, q) == IF key = "negy_x" THEN KeyNegYThenX(p, q) ELSE KeyX(p, q)

\* sorted(seq, key): stable insertion sort
RECURSIVE InsertSorted(_, _, _)
InsertSorted(key, p, s) ==
    IF s = << >> THEN << p >>
    ELSE IF KeyLess(key, p, Head(s)) THEN << p >> \o s
    ELSE << Head(s) >> \o InsertSorted(key, p, Tail(s))

RECURSIVE Sorted(_, _)
Sorted(key, s) ==
    IF s = << >> THEN << >>
    ELSE LET n == Len(s)
         IN  InsertSorted(key, s[n], Sorted(key, SubSeq(s, 1, n - 1)))

\* order_tl_tr_br_bl(pxpts), the same in the three scripts
order_tl_tr_br_bl(pxpts) ==
    LET s   == Sorted("negy_x", pxpts)
        top == Sorted("x", SubSeq(s, 1, 2))
        bot == Sorted("x", SubSeq(s, 3, 4))
    IN  << top[1], top[2], bot[2], bot[1] >>

Clamp(lo, hi, a) == Max2(lo, Min2(hi, a))

\* the pixel of one projected point, the max / min lines left out
PixelFlippedNoClamp(uvw, W, H) ==
    << PyRound(uvw.x * (W - 1), 10000),
       PyRound((10000 - uvw.y) * (H - 1), 10000) >>

\* project_to_pixels, body of the loop (single camera scripts): the pixel of
\* one projected point; y is flipped to image space
PixelFlipped(uvw, W, H) ==
    LET x == PyRound(uvw.x * (W - 1), 10000)
        y == PyRound((10000 - uvw.y) * (H - 1), 10000)
    IN  << Clamp(0, W - 1, x), Clamp(0, H - 1, y) >>

\* project_pixels, body of the loop (data_generator.py): y is not flipped
PixelUnflipped(uvw, W, H) ==
    << Clamp(0, W - 1, PyRound(uvw.x * (W - 1), 10000)),
       Clamp(0, H - 1, PyRound(uvw.y * (H - 1), 10000)) >>

\* the pixel mapping of the running script
ToPixel(var, uvw, W, H) ==
    IF var = "multi" THEN PixelUnflipped(uvw, W, H)
    ELSE PixelFlipped(uvw, W, H)

\* project_to_pixels / project_pixels over the 4 corners
project_to_pixels(var, cam, wpts, W, H) ==
    [ i \in 1..4 |-> ToPixel(var, world_to_camera_view(cam, wpts[i]), W, H) ]

\* ------------------------------------------------------------------------
\* The random module
\* ------------------------------------------------------------------------
\* one step of the generator (a 16 bit counter with an output mix stands for
\* the Mersenne Twister)
Step(r) == (r + 40503) % 65536

\* k steps
Iter(r, k) == (r + k * 40503) % 65536

\* the output of the generator in state r
Mix(r) == ((r * 25173 + 13849) % 65536) \div 256

\* a seeding that takes in the run as well (as seeding from the clock would)
SeedStateFromRun(s) == (s * 7919 + run * 104729) % 65536

\* random.seed(SEED): the state of the generator is a function of SEED
SeedState(s) == (s * 7919) % 65536

Elems(s) == { s[i] : i \in 1..Len(s) }

\* the value a call returns when the generator has stepped to state r
Val(s, r) == s[(Mix(r) % Len(s)) + 1]

\* the values one call can return: s samples the call's range, r is the
\* state of the generator before the call
Pick(s, r) == IF seeded THEN { Val(s, Step(r)) } ELSE Elems(s)

\* m calls in a row, one every `stride` calls, the first after `off` calls
PickSeq(s, r, m, stride, off) ==
    IF seeded
    THEN { [ i \in 1..m |-> Val(s, Iter(r, off + (i - 1) * stride + 1)) ] }
    ELSE [ 1..m -> Elems(s) ]

Range(a, b) == [ i \in 1..(b - a + 1) |-> a + i - 1 ]

\* samples of the ranges the scripts draw from
DistSamples == << 380, 620 >>          \* CAMERA_DIST_MIN, CAMERA_DIST_MAX
SizeSamples == << 50, 110 >>           \* WINDOW_SIZE_RANGE
\* uniform(-MAX_SKEW_DEG, MAX_SKEW_DEG) for rx, ry, rz
SkewXSamples == IF wide THEN << -MAX_SKEW_DEG, 0 >> ELSE << 0 >>
SkewYSamples == IF wide THEN << 0, MAX_SKEW_DEG >> ELSE << MAX_SKEW_DEG >>
SkewZSamples == IF wide THEN << 0, MAX_SKEW_DEG >> ELSE << 0 >>
UnitSamples == << 25, 75 >>            \* random.random(), hundredths
\* uniform(-BOARD_HALF_EXTENTS[0], BOARD_HALF_EXTENTS[0]), and [1]
CxSamples == IF wide THEN << -160, 0, 100 >> ELSE << 0, 120 >>
CySamples == IF wide THEN << 0, 120 >> ELSE << 0 >>
OccSizeSamples == << 12 >>             \* OCCLUDER_SIZE_RANGE
OccDepthSamples == << 30, 200 >>       \* OCCLUDER_Z_OFFSET
OccXSamples == << 0 >>
OccYSamples == << 0 >>
LightTypes == << "POINT", "AREA" >>
\* data_generator.py; the per camera offsets uniform(-0.2, 0.2),
\* uniform(-12, 12), uniform(-6, 6) are sampled at 0
OrbitDistSamples == << 160, 280 >>     \* bd = uniform(1.6, 2.8)
OrbitElSamples == << 37 >>             \* be = uniform(20, 55)
OrbitAzSamples == << 0 >>              \* ba = uniform(-180, 180)
LensSamples == << 50 >>                \* uniform(35, 60)
CenterXSamples == << 0, 30 >>          \* uniform(-0.9, 0.9)
CenterYSamples == << 0, 30 >>          \* uniform(-0.6, 0.6)
TiltXSamples == << 0 >>                \* uniform(-25, 25)
TiltYSamples == << 25 >>               \* uniform(-25, 25)
SpinSamples == << 90 >>                \* uniform(0, 360)
ScaleSamples == << 125 >>              \* uniform(0.7, 1.25)
LiftSamples == << 0 >>                 \* uniform(-0.02, 0.02)
MultiOccSizeSamples == << 15 >>        \* uniform(0.05, 0.30)
MultiOccZSamples == << 20 >>           \* uniform(-0.2, 0.5)

\* ------------------------------------------------------------------------
\* State
\* ------------------------------------------------------------------------
vars == << variant, textureOk, nbg, seed, seeded, wide, rng, run, pc, f, cams, ci,
           lights, win, twin, nwin, cur, tries, fovOk, visible, centers, occ,
           world, rs, excl, files, kpt, journal, runs, tin, tout >>

Single == variant \in {"nobg", "bg"}
Multi == variant = "multi"

\* a pool slot before create_window_plane has made its object
NoWindow == [ exists |-> FALSE, hide |-> TRUE, mat |-> "none", scale |-> 0,
              loc |-> <<0, 0, 0>>, rot |-> <<0, 0, 0>> ]

\* a camera object as bpy.data.objects.new leaves it: at the origin, looking
\* down -Z with +Y up
NewCamera(lens) == [ loc |-> <<0, 0, 0>>, right |-> <<1000, 0, 0>>,
                     up |-> <<0, 1000, 0>>, fwd |-> <<0, 0, -1000>>,
                     lens |-> lens ]

\* place_camera_perpendicular(cam, board, dist): the board is at the origin
\* with normal +Z; the camera sits at n * dist and looks along -n
place_camera_perpendicular(cam, dist) ==
    [ cam EXCEPT !.loc = <<0, 0, dist>>, !.right = <<1000, 0, 0>>,
                 !.up = <<0, 1000, 0>>, !.fwd = <<0, 0, -1000>> ]

\* the scene before the render loop; `v` is the script
InitScene(v) ==
    /\ f = 0
    /\ cams = IF v = "multi" THEN [ i \in 1..N_CAMERAS |-> NewCamera(50) ]
              ELSE << NewCamera(CAMERA_LENS_MM) >>
    /\ ci = 1
    /\ lights = IF v = "multi" THEN 1 ELSE 0
    /\ win = [ i \in 1..MaxWindows |-> NoWindow ]
    /\ twin = [ i \in 1..MaxWindows |-> NoWindow ]
    /\ nwin = 0
    /\ cur = 0
    /\ tries = 0
    /\ fovOk = FALSE
    /\ visible = << >>
    /\ centers = << >>
    /\ occ = << >>
    /\ world = "none"
    /\ rs = [ color_mode |-> IF v = "multi" THEN "RGB" ELSE "default",
              film_transparent |-> FALSE,
              use_compositing |-> TRUE,
              filepath |-> "" ]
    /\ excl = [ backdrop |-> FALSE, occluders |-> FALSE, windows_rgb |-> FALSE,
                windows_msk |-> FALSE, misc |-> FALSE ]
    /\ files = {}
    /\ kpt = << >>
    /\ journal = << >>

NoTest == /\ tin = << >>
          /\ tout = << >>

\* the scripts run once, with any outcome of every random call
Init ==
    /\ variant \in {"nobg", "bg", "multi"}
    /\ textureOk \in BOOLEAN
    /\ nbg \in (IF variant = "bg" THEN {0, 2} ELSE {0})
    /\ seed = 1
    /\ seeded = FALSE
    /\ wide = FALSE
    /\ rng = 0
    /\ run = 1
    /\ runs = << >>
    /\ pc = "startup"
    /\ InitScene(variant)
    /\ NoTest

testVars == << tin, tout >>
cfgVars == << variant, textureOk, nbg, seed, seeded, wide >>

\* ------------------------------------------------------------------------
\* Start of a script, up to the render loop
\* ------------------------------------------------------------------------
\* window pairs of data_generator.py: make_window_pair links an _RGB object
\* with mat_rgb and an _MSK twin with mat_mask, both at the identity
NewTwin(m) == [ exists |-> TRUE, hide |-> FALSE, mat |-> m, scale |-> 100,
                loc |-> <<0, 0, 0>>, rot |-> <<0, 0, 0>> ]

\* random.seed(SEED) (data_generator.py then makes the backdrop material, 8
\* calls of random), then the materials are built from the texture file:
\* build_window_rgb_material raises FileNotFoundError, and
\* bpy.data.images.load raises, when the file is missing
\* a start that builds the materials without the texture file
texture_never_missing == TRUE

\* os.path.exists(img_path) of the material builders; in data_generator.py
\* the success of bpy.data.images.load(WINDOW_PNG_PATH)
texture_found == textureOk

Startup ==
    /\ pc = "startup"
    /\ rng' = IF seeded
              THEN Iter(SeedState(seed), IF Multi THEN 8 ELSE 0)
              ELSE rng
    /\ IF ~texture_found
       THEN /\ pc' = "aborted"
            /\ UNCHANGED << win, twin >>
       ELSE /\ pc' = "frame"
            /\ IF Multi
               THEN /\ win' = [ i \in 1..MaxWindows |-> NewTwin("rgb") ]
                    /\ twin' = [ i \in 1..MaxWindows |-> NewTwin("mask") ]
               ELSE UNCHANGED << win, twin >>
    /\ UNCHANGED << cfgVars, run, f, cams, ci, lights, nwin, cur, tries, fovOk,
                    visible, centers, occ, world, rs, excl, files, kpt,
                    journal, runs, testVars >>

\* ------------------------------------------------------------------------
\* Single camera scripts: randomization of a frame
\* ------------------------------------------------------------------------
\* spawn_random_lights: the calls one light makes: choice of the type, 3 for
\* the location, the energy, the size of an AREA light, 3 for the colour
RECURSIVE AfterLights(_, _)
AfterLights(r, n) ==
    IF n = 0 THEN r
    ELSE LET r1 == Step(r)
             k  == IF Val(LightTypes, r1) = "AREA" THEN 8 ELSE 7
         IN  AfterLights(Iter(r1, k), n - 1)

NumExisting == Cardinality({ i \in 1..MaxWindows : win[i].exists })

\* a pool that is grown but whose windows keep their visibility
get_or_make_windows_no_hide(n_needed, sizes) ==
    LET ex == Cardinality({ i \in 1..MaxWindows : win[i].exists })
    IN  [ i \in 1..MaxWindows |->
            IF win[i].exists THEN win[i]
            ELSE IF i <= n_needed
            THEN [ exists |-> TRUE, hide |-> TRUE, mat |-> "rgb",
                   scale |-> sizes[i - ex] \div 2,
                   loc |-> <<0, 0, 0>>, rot |-> <<0, 0, 0>> ]
            ELSE win[i] ]

\* get_or_make_windows(n_needed): windows are made until the pool holds
\* n_needed (each with the RGB material and a drawn size), then every window
\* of the pool is hidden
get_or_make_windows(n_needed, sizes) ==
    LET ex == NumExisting
    IN  [ i \in 1..MaxWindows |->
            IF win[i].exists THEN [ win[i] EXCEPT !.hide = TRUE ]
            ELSE IF i <= n_needed
            THEN [ exists |-> TRUE, hide |-> TRUE, mat |-> "rgb",
                   scale |-> sizes[i - ex] \div 2,
                   loc |-> <<0, 0, 0>>, rot |-> <<0, 0, 0>> ]
            ELSE win[i] ]

\* top of the loop body: camera, lights, n_windows, get_or_make_windows
BeginFrame ==
    /\ pc = "frame"
    /\ Single
    /\ f < NumImages
    /\ \E dist \in Pick(DistSamples, rng) :
         LET rL == AfterLights(Step(rng), NUM_RANDOM_LIGHTS)
         IN  \E n \in Pick(Range(1, MaxWindows), rL) :
               LET m == Max2(0, n - NumExisting)
               IN  \E sizes \in PickSeq(SizeSamples, Step(rL), m, 1, 0) :
                     /\ cams' = << place_camera_perpendicular(cams[1], dist) >>
                     /\ nwin' = n
                     /\ win' = get_or_make_windows(n, sizes)
                     /\ rng' = IF seeded THEN Iter(Step(rL), m) ELSE rng
    /\ f' = f + 1
    /\ lights' = NUM_RANDOM_LIGHTS
    /\ visible' = << >>
    /\ cur' = 1
    /\ kpt' = << >>
    /\ pc' = "place"
    /\ UNCHANGED << cfgVars, run, ci, twin, tries, fovOk, centers, occ, world,
                    rs, excl, files, journal, runs, testVars >>

\* for w in windows[:n_windows]: the window is shown and ensure_in_fov starts
PlaceBegin ==
    /\ pc = "place"
    /\ win' = [ win EXCEPT ![cur].hide = FALSE ]
    /\ tries' = 0
    /\ pc' = "fov"
    /\ UNCHANGED << cfgVars, rng, run, f, cams, ci, lights, twin, nwin, cur,
                    fovOk, visible, centers, occ, world, rs, excl, files, kpt,
                    journal, runs, testVars >>

\* a skew that returns the three angles as drawn
random_skew_as_drawn(rx, ry, rz, axis, u) == << rx, ry, rz >>

\* random_skew of sample_window_pose_and_size: when the three drawn angles
\* are all below MIN_SKEW_DEG one axis is set to +-MIN_SKEW_DEG
random_skew(rx, ry, rz, axis, u) ==
    IF Max2(Abs(rx), Max2(Abs(ry), Abs(rz))) < MIN_SKEW_DEG
    THEN LET val == MIN_SKEW_DEG * (IF u > 50 THEN 1 ELSE -1)
         IN  IF axis = 0 THEN << val, ry, rz >>
             ELSE IF axis = 1 THEN << rx, val, rz >>
             ELSE << rx, ry, val >>
    ELSE << rx, ry, rz >>

\* a loop that never runs out of attempts
range_never_exhausted(t) == FALSE

\* `for _ in range(max_tries)`: the pass numbered t was the last one
range_exhausted(t) == t >= MaxTries

\* one pass of the loop of ensure_in_fov: a pose is drawn, applied to the
\* window and tested; the function returns True when the test passes and
\* False after max_tries failed passes
FovAttempt ==
    /\ pc = "fov"
    /\ \E size \in Pick(SizeSamples, rng),
          rx \in Pick(SkewXSamples, Iter(rng, 1)),
          ry \in Pick(SkewYSamples, Iter(rng, 2)),
          rz \in Pick(SkewZSamples, Iter(rng, 3)) :
         LET force == Max2(Abs(rx), Max2(Abs(ry), Abs(rz))) < MIN_SKEW_DEG
             r4 == Iter(rng, 4)
             r6 == IF force THEN Iter(r4, 2) ELSE r4
         IN  \E axis \in (IF force THEN Pick(<<0, 1, 2>>, r4) ELSE {0}),
                u \in (IF force THEN Pick(UnitSamples, Step(r4)) ELSE {0}),
                cx \in Pick(CxSamples, r6),
                cy \in Pick(CySamples, Step(r6)) :
               LET w == [ win[cur] EXCEPT
                            !.scale = size \div 2,
                            !.loc = <<cx, cy, 0>>,
                            !.rot = random_skew(rx, ry, rz, axis, u) ]
                   ok == all_corners_in_frame(cams[1],
                                              plane_world_corners(variant, w))
               IN  /\ win' = [ win EXCEPT ![cur] = w ]
                   /\ rng' = IF seeded THEN Iter(r6, 2) ELSE rng
                   /\ IF ok
                      THEN pc' = "placed" /\ fovOk' = TRUE
                      ELSE IF range_exhausted(tries + 1)
                      THEN pc' = "placed" /\ fovOk' = FALSE
                      ELSE pc' = "fov" /\ UNCHANGED fovOk
    /\ tries' = tries + 1
    /\ UNCHANGED << cfgVars, run, f, cams, ci, lights, twin, nwin, cur,
                    visible, centers, occ, world, rs, excl, files, kpt,
                    journal, runs, testVars >>

\* a fallback that leaves the window in the last tried pose
FallbackPoseKeepsLast(w) == w

\* the pose the loop gives a window when ensure_in_fov returned False
FallbackPose(w) == [ w EXCEPT !.scale = FALLBACK_SCALE,
                              !.loc = <<0, 0, 0>>,
                              !.rot = <<0, 0, 0>> ]

\* after ensure_in_fov: `if not ok:` fallback pose; visible_windows.append(w)
AfterFov ==
    /\ pc = "placed"
    /\ win' = IF fovOk THEN win
              ELSE [ win EXCEPT ![cur] = FallbackPose(win[cur]) ]
    /\ visible' = Append(visible, cur)
    /\ IF cur < nwin
       THEN /\ cur' = cur + 1
            /\ pc' = "place"
       ELSE /\ cur' = cur
            /\ pc' = "occl"
    /\ UNCHANGED << cfgVars, rng, run, f, cams, ci, lights, twin, nwin, tries,
                    fovOk, centers, occ, world, rs, excl, files, kpt, journal, runs, testVars >>

\* spawn_occluders_random(board, n_min, n_max): `count` cubes, each with a
\* drawn size, depth and board position, at base_pos = board_center - n *
\* depth with n = +Z
spawn_occluders_random(depths) ==
    [ i \in 1..Len(depths) |->
        [ scale |-> OccSizeSamples[1],
          loc |-> << OccXSamples[1], OccYSamples[1], 0 - depths[i] >>,
          mat |-> "none" ] ]

\* the (n_min, n_max) passed to spawn_occluders_random for frame `fr`
OccluderRange(fr) ==
    IF variant = "bg" /\ ~(fr <= NumBaseImages)
    THEN << NUM_OCCLUDERS_MIN + 1, MaxOccluders + 1 >>
    ELSE << NUM_OCCLUDERS_MIN, MaxOccluders >>

\* a clearing that removes nothing
clear_occluders_keep(o) == o

\* clear_occluders() (cleanup_occluders() in data_generator.py): every object
\* of the Occluders collection is removed
clear_occluders(o) == << >>

\* the occluder o, marked with the frame whose randomization spawned it
Spawned(o, fr) == [ scale |-> o.scale, loc |-> o.loc, mat |-> o.mat,
                    frame |-> fr ]

\* clear_occluders(); spawn_occluders_random(...)
Occluders ==
    /\ pc = "occl"
    /\ Single
    /\ \E count \in Pick(Range(OccluderRange(f)[1], OccluderRange(f)[2]), rng) :
         \E depths \in PickSeq(OccDepthSamples, Step(rng), count, 4, 1) :
           /\ occ' = clear_occluders(occ) \o
                        [ i \in 1..count |->
                            Spawned(spawn_occluders_random(depths)[i], f) ]
           /\ rng' = IF seeded THEN Iter(rng, 1 + 4 * count) ELSE rng
    /\ pc' = "rgb"
    /\ UNCHANGED << cfgVars, run, f, cams, ci, lights, win, twin, nwin, cur,
                    tries, fovOk, visible, centers, world, rs, excl, files,
                    kpt, journal, runs, testVars >>

\* ------------------------------------------------------------------------
\* Single camera scripts: the passes of a frame
\* ------------------------------------------------------------------------
\* the names of the files the scripts write
FileName(dir, name, c, fr, ext) ==
    [ dir |-> dir, name |-> name, cam |-> c, frame |-> fr, ext |-> ext ]

\* a material swap that also rescales the windows it touches
SetMaterialAndRescale(ws, idxs, m) ==
    [ i \in 1..MaxWindows |->
        IF \E k \in 1..Len(idxs) : idxs[k] = i
        THEN [ ws[i] EXCEPT !.mat = m, !.scale = FALLBACK_SCALE ] ELSE ws[i] ]

\* a material swap that leaves every material as it is
SetMaterialKeep(ws, idxs, m) == ws

\* w.data.materials.clear(); w.data.materials.append(m) for the windows idxs
SetMaterial(ws, idxs, m) ==
    [ i \in 1..MaxWindows |->
        IF \E k \in 1..Len(idxs) : idxs[k] = i
        THEN [ ws[i] EXCEPT !.mat = m ] ELSE ws[i] ]

\* RGB pass up to the render call: film, colour mode, compositing and the
\* background image (with_background), the RGB material on every visible
\* window, the file path
RgbSetup ==
    /\ pc = "rgb"
    /\ Single
    /\ rs' = [ film_transparent |-> TRUE,
               color_mode |-> "RGBA",
               use_compositing |-> IF variant = "bg" THEN TRUE
                                   ELSE rs.use_compositing,
               filepath |-> FileName("images", "img", 0, f, "png") ]
    /\ rng' = IF seeded /\ variant = "bg" /\ nbg > 0 THEN Step(rng) ELSE rng
    /\ win' = SetMaterial(win, visible, "rgb")
    /\ pc' = "rgb_render"
    /\ UNCHANGED << cfgVars, run, f, cams, ci, lights, twin, nwin, cur, tries,
                    fovOk, visible, centers, occ, world, excl, files, kpt,
                    journal, runs, testVars >>

\* a render call after which the loop goes straight to the keypoints
RenderThenKeypoints ==
    /\ pc \in {"rgb_render", "mask_render"}
    /\ files' = files \cup { rs.filepath }
    /\ pc' = "kpt"
    /\ UNCHANGED << cfgVars, rng, run, f, cams, ci, lights, win, twin, nwin,
                    cur, tries, fovOk, visible, centers, occ, world, rs, excl,
                    kpt, journal, runs, testVars >>

\* bpy.ops.render.render(write_still=True): the file at filepath is written
Render ==
    /\ pc \in {"rgb_render", "mask_render"}
    /\ files' = files \cup { rs.filepath }
    /\ pc' = IF pc = "rgb_render" THEN "mask" ELSE "kpt"
    /\ UNCHANGED << cfgVars, rng, run, f, cams, ci, lights, win, twin, nwin,
                    cur, tries, fovOk, visible, centers, occ, world, rs, excl,
                    kpt, journal, runs, testVars >>

\* MASK pass up to the render call: colour mode, black world, the mask
\* material on every visible window, black_mat on every occluder mesh
MaskSetup ==
    /\ pc = "mask"
    /\ Single
    /\ rs' = [ film_transparent |-> TRUE,
               color_mode |-> "BW",
               use_compositing |-> IF variant = "bg" THEN FALSE
                                   ELSE rs.use_compositing,
               filepath |-> FileName("masks", "mask", 0, f, "png") ]
    /\ world' = "black"
    /\ win' = SetMaterial(win, visible, "mask")
    /\ occ' = [ i \in 1..Len(occ) |-> [ occ[i] EXCEPT !.mat = "black" ] ]
    /\ pc' = "mask_render"
    /\ UNCHANGED << cfgVars, rng, run, f, cams, ci, lights, twin, nwin, cur,
                    tries, fovOk, visible, centers, excl, files, kpt, journal,
                    runs, testVars >>

\* the record of one window: its 4 corners projected, mapped to pixels and
\* ordered
KeypointRecord(cam, i) ==
    [ object_name |-> i,
      keypoints |-> order_tl_tr_br_bl(
          project_to_pixels(variant, cam,
                            plane_world_corners(variant, win[i]),
                            IMG_W, IMG_H)) ]

\* KEYPOINTS pass: one record per visible window, the payload, the file
Keypoints ==
    /\ pc = "kpt"
    /\ Single
    /\ LET payload ==
             [ frame |-> f,
               image |-> FileName("images", "img", 0, f, "png"),
               mask |-> FileName("masks", "mask", 0, f, "png"),
               resolution |-> << IMG_W, IMG_H >>,
               objects |-> [ k \in 1..Len(visible) |->
                               KeypointRecord(cams[1], visible[k]) ] ]
           name == FileName("keypoints", "kpt", 0, f, "json")
       IN  /\ kpt' = << [ file |-> name, payload |-> payload ] >>
           /\ files' = files \cup { name }
           /\ journal' = IF seeded THEN Append(journal, payload) ELSE journal
    /\ pc' = "frame"
    /\ UNCHANGED << cfgVars, rng, run, f, cams, ci, lights, win, twin, nwin,
                    cur, tries, fovOk, visible, centers, occ, world, rs, excl,
                    runs, testVars >>

\* the loop is over: print("[DONE] ...")
Finish ==
    /\ pc = "frame"
    /\ f >= NumImages
    /\ pc' = "done"
    /\ runs' = IF seeded THEN Append(runs, journal) ELSE runs
    /\ UNCHANGED << cfgVars, rng, run, f, cams, ci, lights, win, twin, nwin,
                    cur, tries, fovOk, visible, centers, occ, world, rs, excl,
                    files, kpt, journal, testVars >>

\* ------------------------------------------------------------------------
\* data_generator.py: randomization of a frame
\* ------------------------------------------------------------------------
\* set_cam_orbit(cam, dist, az, el): the camera sits on the orbit and tracks
\* the origin with -Z, keeping Y up; then the lens is drawn
set_cam_orbit(cam, dist, az, el, lens) ==
    LET fwd == << -Mul(Cos(el), Cos(az)), -Mul(Cos(el), Sin(az)), -Sin(el) >>
    IN  [ loc |-> << (-fwd[1] * dist) \div 1000, (-fwd[2] * dist) \div 1000,
                     (-fwd[3] * dist) \div 1000 >>,
          right |-> << -Sin(az), Cos(az), 0 >>,
          up |-> << -Mul(Sin(el), Cos(az)), -Mul(Sin(el), Sin(az)), Cos(el) >>,
          fwd |-> fwd,
          lens |-> lens ]

\* randomize_cameras(): the cameras are spread by step = 360 / N_CAMERAS
randomize_cameras(bd, be, ba, lenses) ==
    [ i \in 1..N_CAMERAS |->
        set_cam_orbit(cams[i], bd, ba + (i - 1) * (360 \div N_CAMERAS), be,
                      lenses[i]) ]

\* a test that accepts every drawn point
FarFromNone(c, pts, d) == TRUE

\* a test that asks for an accepted point at distance d or more
FarFromSome(c, pts, d) ==
    \E k \in 1..Len(pts) :
        (c[1] - pts[k][1]) * (c[1] - pts[k][1])
          + (c[2] - pts[k][2]) * (c[2] - pts[k][2]) >= d * d

\* all(((c[0]-x)**2 + (c[1]-y)**2)**0.5 >= d for x, y in pts)
FarFromAll(c, pts, d) ==
    \A k \in 1..Len(pts) :
        (c[1] - pts[k][1]) * (c[1] - pts[k][1])
          + (c[2] - pts[k][2]) * (c[2] - pts[k][2]) >= d * d

\* the loop of sample_nonoverlap(n, d), cands[t + 1] being the point drawn by
\* pass t + 1; the result is pts and the value of tries
RECURSIVE sample_nonoverlap_loop(_, _, _, _, _)
sample_nonoverlap_loop(n, d, cands, pts, t) ==
    IF Len(pts) < n /\ t < MaxCenterTries
    THEN LET c == cands[t + 1]
         IN  sample_nonoverlap_loop(n, d, cands,
                 IF FarFromAll(c, pts, d) THEN Append(pts, c) ELSE pts, t + 1)
    ELSE [ pts |-> pts, tries |-> t ]

sample_nonoverlap(n, d, cands) == sample_nonoverlap_loop(n, d, cands, << >>, 0)

\* a placement that shows every pair of the pool, with or without a center
place_windows_show_all(ctrs, poses) ==
    [ i \in 1..MaxWindows |-> [ win[i] EXCEPT !.hide = FALSE ] ]

\* place_windows(n) after sample_nonoverlap: pair idx is visible when it has
\* a center, and then its _RGB object gets a drawn rotation and scale and
\* the center as location; a hidden pair keeps its transform
place_windows(ctrs, poses) ==
    [ i \in 1..MaxWindows |->
        IF i <= Len(ctrs)
        THEN [ win[i] EXCEPT !.hide = FALSE,
                             !.rot = << poses[i].rx, poses[i].ry, poses[i].rz >>,
                             !.scale = poses[i].s,
                             !.loc = << ctrs[i][1], ctrs[i][2], poses[i].z >> ]
        ELSE [ win[i] EXCEPT !.hide = TRUE ] ]

\* twins that take the visibility of their _RGB object and keep their
\* transform
sync_twins_hide_only(ws) ==
    [ i \in 1..MaxWindows |-> [ twin[i] EXCEPT !.hide = ws[i].hide ] ]

\* sync_twins(): every _MSK twin takes the transform of its _RGB object;
\* place_windows has given it the same visibility
sync_twins(ws) ==
    [ i \in 1..MaxWindows |->
        [ twin[i] EXCEPT !.hide = ws[i].hide, !.loc = ws[i].loc,
                         !.rot = ws[i].rot, !.scale = ws[i].scale ] ]

\* spawn_occluder(): a cube with a material of its own
spawn_occluder == [ scale |-> MultiOccSizeSamples[1],
                    loc |-> << 0, 0, MultiOccZSamples[1] >>,
                    mat |-> "own" ]

\* stands, in the sequence of drawn points, for a pass the loop never made
Undrawn == << CenterXSamples[1], CenterYSamples[1] >>

\* the points drawn by the passes of sample_nonoverlap, r the state of the
\* generator before the first
CenterDraws(r) ==
    IF seeded
    THEN { [ t \in 1..MaxCenterTries |->
               << Val(CenterXSamples, Iter(r, 2 * t - 1)),
                  Val(CenterYSamples, Iter(r, 2 * t)) >> ] }
    ELSE [ 1..MaxCenterTries -> Elems(CenterXSamples) \X Elems(CenterYSamples) ]

\* the rotation, scale and lift drawn for k windows
PoseDraws(r, k) ==
    IF seeded
    THEN { [ i \in 1..k |->
               [ rx |-> Val(TiltXSamples, Iter(r, 5 * (i - 1) + 1)),
                 ry |-> Val(TiltYSamples, Iter(r, 5 * (i - 1) + 2)),
                 rz |-> Val(SpinSamples, Iter(r, 5 * (i - 1) + 3)),
                 s  |-> Val(ScaleSamples, Iter(r, 5 * (i - 1) + 4)),
                 z  |-> Val(LiftSamples, Iter(r, 5 * (i - 1) + 5)) ] ] }
    ELSE [ 1..k -> [ rx : Elems(TiltXSamples), ry : Elems(TiltYSamples),
                     rz : Elems(SpinSamples), s : Elems(ScaleSamples),
                     z : Elems(LiftSamples) ] ]

\* top of the loop body: refresh_backdrop_material (8 calls of random),
\* randomize_light (4), randomize_cameras, place_windows(randint(1,
\* MAX_WINDOWS)), cleanup_occluders and randint(0, 2) times spawn_occluder
\* (8 calls each)
BeginFrameMulti ==
    /\ pc = "frame"
    /\ Multi
    /\ f < NumImages
    /\ LET r12 == Iter(rng, 12)
           r15 == Iter(rng, 15)
           r27 == Iter(r15, 4 * N_CAMERAS)
           r28 == Step(r27)
       IN  \E bd \in Pick(OrbitDistSamples, r12),
              be \in Pick(OrbitElSamples, Iter(r12, 1)),
              ba \in Pick(OrbitAzSamples, Iter(r12, 2)),
              lenses \in PickSeq(LensSamples, r15, N_CAMERAS, 4, 3),
              n \in Pick(Range(1, MaxWindows), r27),
              cands \in CenterDraws(r28) :
             LET res == sample_nonoverlap(n, MIN_SEP, cands)
                 rw  == Iter(r28, 2 * res.tries)
                 k   == Len(res.pts)
                 ro  == Iter(rw, 5 * k)
             IN  \E poses \in PoseDraws(rw, k),
                    count \in Pick(Range(0, 2), ro) :
                   LET ws == place_windows(res.pts, poses)
                   IN  /\ IF seeded THEN TRUE
                          ELSE \A t \in (res.tries + 1)..MaxCenterTries :
                                  cands[t] = Undrawn
                       /\ cams' = randomize_cameras(bd, be, ba, lenses)
                       /\ nwin' = n
                       /\ centers' = res.pts
                       /\ tries' = res.tries
                       /\ win' = ws
                       /\ twin' = sync_twins(ws)
                       /\ occ' = clear_occluders(occ) \o
                                    [ i \in 1..count |->
                                        Spawned(spawn_occluder, f + 1) ]
                       /\ rng' = IF seeded THEN Iter(ro, 1 + 8 * count)
                                 ELSE rng
    /\ f' = f + 1
    /\ ci' = 1
    /\ kpt' = << >>
    /\ pc' = "rgb"
    /\ UNCHANGED << cfgVars, run, lights, cur, fovOk, visible, world, rs,
                    excl, files, journal, runs, testVars >>

\* ------------------------------------------------------------------------
\* data_generator.py: the passes of one camera
\* ------------------------------------------------------------------------
\* an RGB setup that leaves the Windows_MASK collection in the render
set_excludes_for_rgb_with_twins ==
    [ backdrop |-> FALSE, occluders |-> FALSE, windows_rgb |-> FALSE,
      windows_msk |-> FALSE, misc |-> FALSE ]

set_excludes_for_rgb ==
    [ backdrop |-> FALSE, occluders |-> FALSE, windows_rgb |-> FALSE,
      windows_msk |-> TRUE, misc |-> FALSE ]

\* a MASK setup that leaves the Occluders collection in the render
set_excludes_for_mask_with_occluders ==
    [ backdrop |-> FALSE, occluders |-> FALSE, windows_rgb |-> TRUE,
      windows_msk |-> FALSE, misc |-> TRUE ]

set_excludes_for_mask ==
    [ backdrop |-> FALSE, occluders |-> TRUE, windows_rgb |-> TRUE,
      windows_msk |-> FALSE, misc |-> TRUE ]

\* scene.camera = cam and the RGB pass up to the render call
RgbSetupMulti ==
    /\ pc = "rgb"
    /\ Multi
    /\ rs' = [ rs EXCEPT !.color_mode = "RGB",
                         !.filepath = FileName("images", "img", ci, f, "png") ]
    /\ excl' = set_excludes_for_rgb
    /\ pc' = "rgb_render"
    /\ UNCHANGED << cfgVars, rng, run, f, cams, ci, lights, win, twin, nwin,
                    cur, tries, fovOk, visible, centers, occ, world, files,
                    kpt, journal, runs, testVars >>

\* the MASK pass up to the render call
MaskSetupMulti ==
    /\ pc = "mask"
    /\ Multi
    /\ rs' = [ rs EXCEPT !.color_mode = "BW",
                         !.filepath = FileName("masks", "mask", ci, f, "png") ]
    /\ excl' = set_excludes_for_mask
    /\ pc' = "mask_render"
    /\ UNCHANGED << cfgVars, rng, run, f, cams, ci, lights, win, twin, nwin,
                    cur, tries, fovOk, visible, centers, occ, world, files,
                    kpt, journal, runs, testVars >>

\* the pairs whose _RGB object has hide_render unset, in the order of `pairs`
Shown == LET S == { i \in 1..MaxWindows : ~win[i].hide }
         IN  [ k \in 1..Cardinality(S) |->
                 CHOOSE i \in S : Cardinality({ j \in S : j < i }) = k - 1 ]

\* KEYPOINTS of one camera: a record for every pair not hidden, the file
\* img_<stem>.json; then the next camera, or the next frame
KeypointsMulti ==
    /\ pc = "kpt"
    /\ Multi
    /\ LET payload ==
             [ image |-> FileName("images", "img", ci, f, "png"),
               mask |-> FileName("masks", "mask", ci, f, "png"),
               resolution |-> << IMG_W, IMG_H >>,
               camera |-> ci,
               objects |-> [ k \in 1..Len(Shown) |->
                               KeypointRecord(cams[ci], Shown[k]) ] ]
           name == FileName("keypoints", "img", ci, f, "json")
       IN  /\ kpt' = << [ file |-> name, payload |-> payload ] >>
           /\ files' = files \cup { name }
           /\ journal' = IF seeded THEN Append(journal, payload) ELSE journal
    /\ IF ci < N_CAMERAS
       THEN ci' = ci + 1 /\ pc' = "rgb"
       ELSE ci' = ci /\ pc' = "frame"
    /\ UNCHANGED << cfgVars, rng, run, f, cams, lights, win, twin, nwin, cur,
                    tries, fovOk, visible, centers, occ, world, rs, excl,
                    runs, testVars >>

\* ------------------------------------------------------------------------
\* The scripts
\* ------------------------------------------------------------------------
Next ==
    \/ Startup
    \/ BeginFrame
    \/ PlaceBegin
    \/ FovAttempt
    \/ AfterFov
    \/ Occluders
    \/ RgbSetup
    \/ MaskSetup
    \/ Keypoints
    \/ BeginFrameMulti
    \/ RgbSetupMulti
    \/ MaskSetupMulti
    \/ KeypointsMulti
    \/ Render
    \/ Finish

Spec == Init /\ [][Next]_vars

\* the steps that project points through a camera: the body of ensure_in_fov
\* and the writing of the keypoint record
GeometrySteps == FovAttempt \/ Keypoints \/ KeypointsMulti

\* every other step of the script
ControlSteps ==
    \/ Startup \/ BeginFrame \/ PlaceBegin \/ AfterFov \/ Occluders
    \/ RgbSetup \/ MaskSetup \/ BeginFrameMulti \/ RgbSetupMulti
    \/ MaskSetupMulti \/ Render \/ Finish

\* the script is one thread of control: the statement it stands at is
\* executed.  The geometry steps have no guard but their position, so weak
\* fairness for them is written out by its definition with the position as
\* the enabling condition.
SpecLive ==
    /\ Init /\ [][Next]_vars
    /\ WF_vars(ControlSteps)
    /\ ([]<>(pc \notin {"fov", "kpt"}) \/ []<><<GeometrySteps>>_vars)

\* ------------------------------------------------------------------------
\* Two runs of a script with the same SEED
\* ------------------------------------------------------------------------
InitSeeded ==
    /\ variant \in {"nobg", "bg", "multi"}
    /\ textureOk = TRUE
    /\ nbg \in (IF variant = "bg" THEN {0, 2} ELSE {0})
    /\ seed \in 1..NumSeeds
    /\ seeded = TRUE
    /\ wide = FALSE
    /\ rng = 0
    /\ run = 1
    /\ runs = << >>
    /\ pc = "startup"
    /\ InitScene(variant)
    /\ NoTest

\* the script is started again, in a new Blender process
Rerun ==
    /\ pc = "done"
    /\ run = 1
    /\ run' = 2
    /\ rng' = 0
    /\ pc' = "startup"
    /\ f' = 0
    /\ cams' = IF Multi THEN [ i \in 1..N_CAMERAS |-> NewCamera(50) ]
               ELSE << NewCamera(CAMERA_LENS_MM) >>
    /\ ci' = 1
    /\ lights' = IF Multi THEN 1 ELSE 0
    /\ win' = [ i \in 1..MaxWindows |-> NoWindow ]
    /\ twin' = [ i \in 1..MaxWindows |-> NoWindow ]
    /\ nwin' = 0
    /\ cur' = 0
    /\ tries' = 0
    /\ fovOk' = FALSE
    /\ visible' = << >>
    /\ centers' = << >>
    /\ occ' = << >>
    /\ world' = "none"
    /\ rs' = [ color_mode |-> IF Multi THEN "RGB" ELSE "default",
               film_transparent |-> FALSE,
               use_compositing |-> TRUE,
               filepath |-> "" ]
    /\ excl' = [ backdrop |-> FALSE, occluders |-> FALSE,
                 windows_rgb |-> FALSE, windows_msk |-> FALSE, misc |-> FALSE ]
    /\ kpt' = << >>
    /\ journal' = << >>
    /\ UNCHANGED << cfgVars, files, runs, testVars >>

NextSeeded == Next \/ Rerun

SpecSeeded == InitSeeded /\ [][NextSeeded]_vars

\* ------------------------------------------------------------------------
\* A full run, then a run whose loop starts at a later frame
\* ------------------------------------------------------------------------
\* the script is started again with the same SEED, in a new Blender process,
\* its loop `for f in range(1, NUM_IMAGES+1)` starting at frame s instead of 1:
\* random.seed(SEED) and the construction of the scene run as in a full run
Resume ==
    /\ pc = "done"
    /\ run = 1
    /\ run' = 2
    /\ rng' = 0
    /\ pc' = "startup"
    /\ \E s \in 2..NumImages : f' = s - 1
    /\ cams' = IF Multi THEN [ i \in 1..N_CAMERAS |-> NewCamera(50) ]
               ELSE << NewCamera(CAMERA_LENS_MM) >>
    /\ ci' = 1
    /\ lights' = IF Multi THEN 1 ELSE 0
    /\ win' = [ i \in 1..MaxWindows |-> NoWindow ]
    /\ twin' = [ i \in 1..MaxWindows |-> NoWindow ]
    /\ nwin' = 0
    /\ cur' = 0
    /\ tries' = 0
    /\ fovOk' = FALSE
    /\ visible' = << >>
    /\ centers' = << >>
    /\ occ' = << >>
    /\ world' = "none"
    /\ rs' = [ color_mode |-> IF Multi THEN "RGB" ELSE "default",
               film_transparent |-> FALSE,
               use_compositing |-> TRUE,
               filepath |-> "" ]
    /\ excl' = [ backdrop |-> FALSE, occluders |-> FALSE,
                 windows_rgb |-> FALSE, windows_msk |-> FALSE, misc |-> FALSE ]
    /\ kpt' = << >>
    /\ journal' = << >>
    /\ UNCHANGED << cfgVars, files, runs, testVars >>

NextResume == Next \/ Resume

SpecResume == InitSeeded /\ [][NextResume]_vars

\* ------------------------------------------------------------------------
\* One call of ensure_in_fov, with densely sampled poses
\* ------------------------------------------------------------------------
\* the state of the first frame of a single camera script when ensure_in_fov
\* is called for its only window
InitFov ==
    /\ variant \in {"nobg", "bg"}
    /\ textureOk = TRUE
    /\ nbg = 0
    /\ seed = 1
    /\ seeded = FALSE
    /\ wide = TRUE
    /\ rng = 0
    /\ run = 1
    /\ runs = << >>
    /\ pc = "fov"
    /\ f = 1
    /\ \E dist \in Elems(DistSamples) :
         cams = << place_camera_perpendicular(NewCamera(CAMERA_LENS_MM), dist) >>
    /\ ci = 1
    /\ lights = NUM_RANDOM_LIGHTS
    /\ \E size \in Elems(SizeSamples) :
         win = [ i \in 1..MaxWindows |->
                   IF i = 1
                   THEN [ exists |-> TRUE, hide |-> FALSE, mat |-> "rgb",
                          scale |-> size \div 2,
                          loc |-> <<0, 0, 0>>, rot |-> <<0, 0, 0>> ]
                   ELSE NoWindow ]
    /\ twin = [ i \in 1..MaxWindows |-> NoWindow ]
    /\ nwin = 1
    /\ cur = 1
    /\ tries = 0
    /\ fovOk = FALSE
    /\ visible = << >>
    /\ centers = << >>
    /\ occ = << >>
    /\ world = "none"
    /\ rs = [ color_mode |-> "default", film_transparent |-> FALSE,
              use_compositing |-> TRUE, filepath |-> "" ]
    /\ excl = [ backdrop |-> FALSE, occluders |-> FALSE, windows_rgb |-> FALSE,
                windows_msk |-> FALSE, misc |-> FALSE ]
    /\ files = {}
    /\ kpt = << >>
    /\ journal = << >>
    /\ NoTest

NextFov == FovAttempt \/ AfterFov

SpecFov == InitFov /\ [][NextFov]_vars

\* ------------------------------------------------------------------------
\* The pure functions, applied to sampled inputs
\* ------------------------------------------------------------------------
\* a mask material without the transparent centre
MaskShadeOpaqueHole(var, layer) ==
    IF layer = "frame" THEN "white" ELSE "black"

\* what one surface met by the ray of a pixel gives in the MASK render.
\* Single camera scripts: build_window_mask_material mixes a transparent
\* shader (the centre of the texture) with white emission (its frame), with
\* alpha blending, and the occluders carry black emission; "skip" lets the
\* ray go on.  data_generator.py: window_mask_material is opaque emission, 1
\* on the frame and 0 elsewhere, and the Occluders collection is excluded.
MaskShade(var, layer) ==
    IF layer = "frame" THEN "white"
    ELSE IF layer = "hole" THEN (IF var = "multi" THEN "black" ELSE "skip")
    ELSE IF var = "multi" THEN "skip" ELSE "black"

\* the value of a pixel in the MASK render: the surfaces under it, from the
\* camera backwards, over the black background
RECURSIVE mask_pixel(_, _)
mask_pixel(var, layers) ==
    IF layers = << >> THEN "black"
    ELSE LET c == MaskShade(var, Head(layers))
         IN  IF c = "skip" THEN mask_pixel(var, Tail(layers)) ELSE c

\* sampled inputs
MaxLayers == 3
UVSamples == { -5000, 0, 2500, 10000, 15000 }
PixelCoords == { <<x, y>> : x \in {0, 10}, y \in {0, 10, 20} }
Layers == { "frame", "hole", "occluder" }
\* values of uniform(-MAX_SKEW_DEG, MAX_SKEW_DEG), on both sides of
\* MIN_SKEW_DEG
SkewInputs == { -MAX_SKEW_DEG, -MIN_SKEW_DEG, -5, 0, 5, MAX_SKEW_DEG }
LayerStacks == UNION { [ 1..n -> Layers ] : n \in 0..MaxLayers }

UnitInputs ==
    { [ fn |-> "pixel", p |-> p, q |-> q ] :
        p \in UVSamples \X UVSamples, q \in UVSamples \X UVSamples }
    \cup { [ fn |-> "order", pts |-> pts ] :
             pts \in { t \in [ 1..4 -> PixelCoords ] :
                         \A i, j \in 1..4 : i # j => t[i] # t[j] } }
    \cup { [ fn |-> "mask", layers |-> l ] : l \in LayerStacks }
    \cup { [ fn |-> "skew", r |-> r, axis |-> a, u |-> u ] :
             r \in SkewInputs \X SkewInputs \X SkewInputs,
             a \in {0, 1, 2}, u \in Elems(UnitSamples) }

InitUnit ==
    /\ variant \in {"nobg", "bg", "multi"}
    /\ textureOk = TRUE
    /\ nbg = 0
    /\ seed = 1
    /\ seeded = FALSE
    /\ wide = FALSE
    /\ rng = 0
    /\ run = 1
    /\ runs = << >>
    /\ pc = "unit"
    /\ InitScene(variant)
    /\ tin \in UnitInputs
    /\ tout = << >>

sceneVars == << rng, run, f, cams, ci, lights, win, twin, nwin, cur, tries,
                fovOk, visible, centers, occ, world, rs, excl, files, kpt,
                journal, runs >>

\* the pixel mapping of the script, on two view points in front of the camera
ApplyPixel ==
    /\ pc = "unit"
    /\ tin.fn = "pixel"
    /\ tout' = << ToPixel(variant, [x |-> tin.p[1], y |-> tin.p[2], z |-> 1],
                          IMG_W, IMG_H),
                  ToPixel(variant, [x |-> tin.q[1], y |-> tin.q[2], z |-> 1],
                          IMG_W, IMG_H) >>
    /\ pc' = "unit_done"
    /\ UNCHANGED << cfgVars, sceneVars, tin >>

ApplyOrder ==
    /\ pc = "unit"
    /\ tin.fn = "order"
    /\ tout' = order_tl_tr_br_bl(tin.pts)
    /\ pc' = "unit_done"
    /\ UNCHANGED << cfgVars, sceneVars, tin >>

ApplyMask ==
    /\ pc = "unit"
    /\ tin.fn = "mask"
    /\ tout' = << mask_pixel(variant, tin.layers) >>
    /\ pc' = "unit_done"
    /\ UNCHANGED << cfgVars, sceneVars, tin >>

\* random_skew on drawn angles, a drawn axis and a drawn random.random()
ApplySkew ==
    /\ pc = "unit"
    /\ tin.fn = "skew"
    /\ Single
    /\ tout' = random_skew(tin.r[1], tin.r[2], tin.r[3], tin.axis, tin.u)
    /\ pc' = "unit_done"
    /\ UNCHANGED << cfgVars, sceneVars, tin >>

NextUnit == ApplyPixel \/ ApplyOrder \/ ApplyMask \/ ApplySkew

SpecUnit == InitUnit /\ [][NextUnit]_vars

\* ------------------------------------------------------------------------
\* Properties
\* ------------------------------------------------------------------------
\* the 4 world corners of window w, in its present scale, location and
\* rotation, project to 0 <= u, v <= 1 with depth > 0 in camera cam
CornersInView(cam, w) ==
    \A i \in 1..4 :
        LET uvw == world_to_camera_view(cam, plane_world_corners(variant, w)[i])
        IN  /\ 0 <= uvw.x /\ uvw.x <= 10000
            /\ 0 <= uvw.y /\ uvw.y <= 10000
            /\ uvw.z > 0

ShownWindows == { i \in 1..MaxWindows : win[i].exists /\ ~win[i].hide }

\* C2: in every script, at each render and at the keypoint computation, every
\* visible window has its 4 corners inside the view of the rendering camera
\* with positive depth.
C2_VisibleWindowsInFrame ==
    pc \in {"rgb_render", "mask_render", "kpt"} =>
        \A i \in ShownWindows : CornersInView(cams[ci], win[i])

\* C3: order_tl_tr_br_bl returns TL, TR, BR, BL for pixel points whose y
\* grows downward: the first two points are the two of smallest y, by
\* ascending x, the last two the two of largest y, right then left.
C3_TopLeftFirst ==
    (pc = "unit_done" /\ tin.fn = "order") =>
        /\ \A i \in {1, 2}, j \in {3, 4} : tout[i][2] <= tout[j][2]
        /\ tout[1][1] <= tout[2][1]
        /\ tout[3][1] >= tout[4][1]

\* C4: in every script the pixel of (u, v) is x = round(u (W-1)),
\* y = round((1-v) (H-1)), clamped; of two points the one with the larger v
\* never gets the larger pixel y.
C4_FlippedY ==
    (pc = "unit_done" /\ tin.fn = "pixel") =>
        /\ tout[1] = << Clamp(0, IMG_W - 1,
                              PyRound(tin.p[1] * (IMG_W - 1), 10000)),
                        Clamp(0, IMG_H - 1,
                              PyRound((10000 - tin.p[2]) * (IMG_H - 1), 10000)) >>
        /\ tin.p[2] > tin.q[2] => tout[1][2] <= tout[2][2]

\* C5: for every (u, v), inside [0, 1] or not, the pixel has 0 <= x <= W-1
\* and 0 <= y <= H-1; (0, 0) and (1, 1) map to diagonally opposite corner
\* pixels of the image.
C5_PixelInImage ==
    (pc = "unit_done" /\ tin.fn = "pixel") =>
        /\ \A k \in 1..2 : /\ tout[k][1] \in 0..(IMG_W - 1)
                           /\ tout[k][2] \in 0..(IMG_H - 1)
        /\ (tin.p = <<0, 0>> /\ tin.q = <<10000, 10000>>) =>
              /\ tout[1][1] = 0 /\ tout[2][1] = IMG_W - 1
              /\ tout[1][2] \in {0, IMG_H - 1}
              /\ tout[2][2] = (IMG_H - 1) - tout[1][2]

\* the mapping was applied to a point outside the unit square
C5_Witness ==
    /\ pc = "unit_done" /\ tin.fn = "pixel"
    /\ tin.p = <<-5000, 15000>> /\ tin.q = <<15000, -5000>>

\* C6: the centers returned by sample_nonoverlap(n, d) are pairwise at
\* distance >= d and inside the sampling bounds, whatever n and whether or
\* not the tries ran out.
C6_CentersApart ==
    Multi =>
        /\ \A i, j \in 1..Len(centers) :
              i < j =>
                (centers[i][1] - centers[j][1]) * (centers[i][1] - centers[j][1])
                  + (centers[i][2] - centers[j][2]) * (centers[i][2] - centers[j][2])
                  >= MIN_SEP * MIN_SEP
        /\ \A i \in 1..Len(centers) :
              /\ Abs(centers[i][1]) <= CENTER_X_MAX
              /\ Abs(centers[i][2]) <= CENTER_Y_MAX

\* two centers were returned, the second after a rejected draw or not
C6_Witness == Multi /\ Len(centers) = 2 /\ tries = MaxCenterTries

\* C7: when sample_nonoverlap returns k centers, exactly the first k pairs
\* are visible in the frame, each at its center, and every keypoint record
\* of the frame lists exactly these k objects.
C7_ReturnedCentersPlaced ==
    (Multi /\ f >= 1) =>
        /\ \A i \in 1..MaxWindows :
              /\ ~win[i].hide <=> i <= Len(centers)
              /\ ~twin[i].hide <=> i <= Len(centers)
        /\ \A i \in 1..Len(centers) :
              /\ win[i].loc[1] = centers[i][1]
              /\ win[i].loc[2] = centers[i][2]
        /\ kpt # << >> =>
              /\ Len(kpt[1].payload.objects) = Len(centers)
              /\ \A k \in 1..Len(centers) :
                    kpt[1].payload.objects[k].object_name = k

\* a record was written in a frame that got fewer centers than requested
C7_Witness == Multi /\ kpt # << >> /\ Len(centers) < nwin

NoOccluder(l) == \A k \in 1..Len(l) : l[k] # "occluder"
HasFrame(l) == \E k \in 1..Len(l) : l[k] = "frame"

\* C8, as stated: in the MASK pass a pixel with no occluder over it is
\* foreground exactly when the frame of at least one window covers it.
C8_MaskIsUnion ==
    (pc = "unit_done" /\ tin.fn = "mask" /\ NoOccluder(tin.layers)) =>
        (tout[1] = "white" <=> HasFrame(tin.layers))

\* C8, amended: in the single camera scripts a pixel with no occluder
\* over it is foreground exactly when the frame of at least one window covers
\* it; in data_generator.py it is foreground exactly when the window surface
\* nearest to the camera shows its frame there.
C8_MaskIsUnionSingleCamera ==
    (pc = "unit_done" /\ tin.fn = "mask" /\ NoOccluder(tin.layers)) =>
        IF Single
        THEN tout[1] = "white" <=> HasFrame(tin.layers)
        ELSE tout[1] = "white" <=>
                (tin.layers # << >> /\ tin.layers[1] = "frame")

\* the frames of two windows lie behind the centre of a third
C8_Witness ==
    /\ pc = "unit_done" /\ tin.fn = "mask" /\ Single
    /\ tin.layers = << "hole", "frame", "frame" >>
    /\ tout = << "white" >>

\* C9, as stated: at every MASK render of every script each occluder of the
\* frame is rendered, with the black material.
C9_OccludersBlackInMask ==
    pc = "mask_render" =>
        \A i \in 1..Len(occ) : ~excl.occluders /\ occ[i].mat = "black"

\* C9, amended: at every MASK render of the single camera scripts each
\* occluder is rendered with the black material; at every MASK render of
\* data_generator.py the Occluders collection is excluded and the occluders
\* keep their own material.
C9_OccludersBlackOrExcluded ==
    pc = "mask_render" =>
        IF Single
        THEN \A i \in 1..Len(occ) : ~excl.occluders /\ occ[i].mat = "black"
        ELSE /\ excl.occluders
             /\ \A i \in 1..Len(occ) : occ[i].mat = "own"

\* a MASK render of data_generator.py with an occluder in the scene
C9_Witness == pc = "mask_render" /\ Multi /\ Len(occ) > 0

C11_ResumedFrameSame ==
    (run = 2 /\ Len(runs) >= 1) =>
        \A k \in 1..Len(journal), j \in 1..Len(runs[1]) :
            journal[k].image = runs[1][j].image => journal[k] = runs[1][j]

\* C12: every keypoint record written, in every script, holds the frame
\* index, the names of the image and mask files written in the same
\* iteration, the resolution and one entry of 4 keypoints per active window,
\* and is stored as kpt_<frame>.json.
C12_RecordComplete ==
    kpt # << >> =>
        LET r == kpt[1]
        IN  /\ r.file.dir = "keypoints" /\ r.file.name = "kpt"
            /\ r.file.frame = f /\ r.file.ext = "json"
            /\ "frame" \in DOMAIN r.payload
            /\ r.payload.frame = f
            /\ r.payload.image \in files /\ r.payload.image.frame = f
            /\ r.payload.mask \in files /\ r.payload.mask.frame = f
            /\ r.payload.resolution = << IMG_W, IMG_H >>
            /\ Len(r.payload.objects) = Cardinality(ShownWindows)
            /\ \A k \in 1..Len(r.payload.objects) :
                  Len(r.payload.objects[k].keypoints) = 4

\* location, rotation and scale of an object
Pose(w) == << w.loc, w.rot, w.scale >>

\* the transforms of the scene: windows (and twins), occluders, cameras with
\* their focal length
Geometry ==
    << [ i \in 1..MaxWindows |-> Pose(win[i]) ],
       [ i \in 1..MaxWindows |-> Pose(twin[i]) ],
       [ i \in 1..Len(occ) |-> << occ[i].loc, occ[i].scale >> ],
       cams >>

\* the cameras that render a frame (0 names the camera of a single camera
\* script in the file names)
FrameCams == IF Multi THEN 1..N_CAMERAS ELSE {0}

\* the file x of directory dir written for camera c in frame fr
Written(S, dir, c, fr) ==
    \E x \in S : x.dir = dir /\ x.cam = c /\ x.frame = fr

\* C13: frames run from 1 to the frame count in increasing order; in a frame
\* all randomization comes first, then the RGB render, then the MASK render,
\* then the keypoint record; frame f+1 starts after the records of frame f
\* are written, and a record is written after both of its renders.
C13_FrameSequence ==
    /\ [](pc = "done" =>
            /\ f = NumImages
            /\ \A fr \in 1..NumImages, c \in FrameCams :
                  Written(files, "keypoints", c, fr))
    /\ [][ /\ f' # f =>
                /\ f' = f + 1
                /\ \A c \in FrameCams :
                      f >= 1 => Written(files, "keypoints", c, f)
           /\ \A x \in files' \ files :
                /\ x.frame = f
                /\ x.dir = "masks" => Written(files, "images", x.cam, f)
                /\ x.dir = "keypoints" =>
                      /\ Written(files, "images", x.cam, f)
                      /\ Written(files, "masks", x.cam, f)
           /\ (Geometry' # Geometry \/ lights' # lights) =>
                \A x \in files' : x.frame # f'
         ]_vars

\* a run wrote every file of its last frame
C13_Witness ==
    /\ pc = "done" /\ f = NumImages
    /\ \A c \in FrameCams : Written(files, "keypoints", c, NumImages)

\* C14: from the end of a frame's randomization to the end of its keypoint
\* computation no window, occluder or camera changes location, rotation,
\* scale or focal length.
C14_GeometryFrozen ==
    [][ (pc \in {"rgb", "rgb_render", "mask", "mask_render", "kpt"}) =>
            (Geometry' = Geometry) ]_vars

\* the keypoints of a frame with two windows and an occluder are computed
C14_Witness ==
    /\ kpt # << >> /\ f = NumImages
    /\ Cardinality(ShownWindows) = 2 /\ Len(occ) > 0

\* C15: in the single camera scripts every active window carries the RGB
\* material at every RGB render and the mask material at every MASK render,
\* in the first frame and in the later ones.
C15_PassMaterials ==
    Single =>
        /\ pc = "rgb_render" => \A i \in ShownWindows : win[i].mat = "rgb"
        /\ pc = "mask_render" => \A i \in ShownWindows : win[i].mat = "mask"

\* the RGB render of a later frame, with a window that went through the MASK
\* pass of the frame before and a second window
C15_Witness ==
    /\ Single /\ pc = "rgb_render" /\ f = 2
    /\ ShownWindows = 1..2
    /\ world = "black"

\* C16: at every RGB render the world is in the configuration it had before
\* the first MASK pass; the black world of the MASK pass is not the one an RGB
\* render sees.
C16_WorldRestoredForRgb ==
    pc = "rgb_render" => world = "none"

\* C17: every occluder spawned by spawn_occluders_random lies, along the
\* board normal (+Z, the board being the plane z = 0), strictly between the
\* board and the camera of the frame.
C17_OccludersTowardCamera ==
    (Single /\ pc \in {"rgb", "rgb_render", "mask", "mask_render", "kpt"}) =>
        \A i \in 1..Len(occ) :
            /\ Dot(occ[i].loc, <<0, 0, 1>>) > 0
            /\ Dot(occ[i].loc, <<0, 0, 1>>) < Dot(cams[1].loc, <<0, 0, 1>>)

\* location (0,0,0), rotation (0,0,0) and the fixed fallback scale
FallbackTransform == << <<0, 0, 0>>, <<0, 0, 0>>, FALLBACK_SCALE >>

\* C18: a window for which ensure_in_fov returned False gets the fallback
\* pose and joins the visible windows; a visible window keeps its pose and
\* stays shown through both renders and the keypoint pass, and the record
\* of the frame has an entry for it.
C18_FallbackKept ==
    [][ /\ (Single /\ pc = "placed" /\ ~fovOk) =>
              /\ Pose(win'[cur]) = FallbackTransform
              /\ ~win'[cur].hide
              /\ cur \in Elems(visible')
        /\ (Single /\ pc # "frame") =>
              \A i \in Elems(visible) :
                  /\ Pose(win'[i]) = Pose(win[i])
                  /\ ~win'[i].hide
                  /\ i \in Elems(visible')
        /\ (Single /\ pc = "kpt") =>
              \A i \in Elems(visible) :
                  \E k \in 1..Len(kpt'[1].payload.objects) :
                      kpt'[1].payload.objects[k] = KeypointRecord(cams[1], i)
      ]_vars

\* the record of a frame was written with its last window in the fallback
\* pose, after ensure_in_fov had failed for it
C18_Witness ==
    /\ Single /\ pc = "frame" /\ kpt # << >> /\ ~fovOk
    /\ Pose(win[cur]) = FallbackTransform
    /\ \E k \in 1..Len(kpt[1].payload.objects) :
          kpt[1].payload.objects[k].object_name = cur

\* side length, in cm, of a window of the single camera scripts: the mesh of
\* create_window_plane spans -1..1 and the object scale is side / 2
SideLength(w) == (2 * MeshHalf(variant) * w.scale) \div 100

\* C19: the fallback pose is centered on the board, has zero rotation, and
\* its side length is not larger than the smallest side the sampler draws.
C19_FallbackMinimal ==
    (Single /\ pc = "occl" /\ ~fovOk) =>
        /\ win[cur].loc = <<0, 0, 0>>
        /\ win[cur].rot = <<0, 0, 0>>
        /\ SideLength(win[cur]) <= WINDOW_SIZE_MIN

\* the largest of the three angles, in absolute value
MaxAbs(r) == Max2(Abs(r[1]), Max2(Abs(r[2]), Abs(r[3])))

\* C20: the rotation returned by random_skew has its largest angle at least
\* MIN_SKEW_DEG and every angle at most MAX_SKEW_DEG; when the three drawn
\* angles are all below the minimum exactly one axis is set to +MIN_SKEW_DEG
\* or -MIN_SKEW_DEG and the other two are as drawn, otherwise all three are.
C20_SkewFloor ==
    (pc = "unit_done" /\ tin.fn = "skew") =>
        /\ MaxAbs(tout) >= MIN_SKEW_DEG
        /\ \A k \in 1..3 : Abs(tout[k]) <= MAX_SKEW_DEG
        /\ MaxAbs(tin.r) >= MIN_SKEW_DEG => tout = tin.r
        /\ MaxAbs(tin.r) < MIN_SKEW_DEG =>
              /\ Cardinality({ k \in 1..3 : tout[k] # tin.r[k] }) = 1
              /\ \E a \in 1..3 :
                    /\ tout[a] \in { MIN_SKEW_DEG, -MIN_SKEW_DEG }
                    /\ \A b \in (1..3) \ {a} : tout[b] = tin.r[b]

\* three drawn angles below the minimum, the third axis forced to -MIN_SKEW_DEG
C20_Witness ==
    /\ pc = "unit_done" /\ tin.fn = "skew"
    /\ tin.r = << 5, -5, 0 >>
    /\ tout = << 5, -5, -MIN_SKEW_DEG >>

\* the windows that have an entry in the keypoint record of the frame
RecordedWindows ==
    { kpt[1].payload.objects[k].object_name :
        k \in 1..Len(kpt[1].payload.objects) }

\* C21: in the single camera scripts the window count of every frame is in
\* 1..MAX_WINDOWS; at both renders exactly the first n windows of the pool
\* are visible and every other pooled window is hidden; the windows with a
\* keypoint record are the visible ones.
C21_FirstNVisible ==
    Single =>
        /\ pc \in {"place", "fov", "placed", "occl", "rgb", "rgb_render",
                    "mask", "mask_render", "kpt"} => nwin \in 1..MaxWindows
        /\ pc \in {"rgb_render", "mask_render"} =>
              /\ ShownWindows = 1..nwin
              /\ \A i \in 1..MaxWindows :
                    (win[i].exists /\ i > nwin) => win[i].hide
        /\ kpt # << >> => RecordedWindows = ShownWindows

\* a MASK render of a frame that uses fewer windows than the pool holds
C21_Witness ==
    /\ Single /\ pc = "mask_render" /\ f = 2
    /\ nwin = 1 /\ win[2].exists /\ win[2].hide

\* the (lowest, highest) number of occluders a frame of the running script
\* can spawn: OccluderRange in the single camera scripts, randint(0, 2) in
\* data_generator.py
OccluderCounts(fr) == IF Multi THEN << 0, 2 >> ELSE OccluderRange(fr)

\* C22: at the renders of a frame the Occluders collection holds exactly the
\* occluders spawned in that frame, none of an earlier frame, and their
\* number is in the range of the frame: [NUM_OCCLUDERS_MIN,
\* NUM_OCCLUDERS_MAX] for a base frame, one more at both ends for a frame
\* after NUM_BASE_IMAGES of the background script.
C22_OccludersOfFrame ==
    pc \in {"rgb_render", "mask_render"} =>
        /\ \A i \in 1..Len(occ) : occ[i].frame = f
        /\ Len(occ) >= OccluderCounts(f)[1]
        /\ Len(occ) <= OccluderCounts(f)[2]
        /\ (variant = "nobg" \/ (variant = "bg" /\ f <= NumBaseImages)) =>
              Len(occ) \in NUM_OCCLUDERS_MIN..MaxOccluders
        /\ (variant = "bg" /\ f > NumBaseImages) =>
              Len(occ) \in (NUM_OCCLUDERS_MIN + 1)..(MaxOccluders + 1)

\* a render of an augmented frame of the background script, which follows a
\* base frame that had an occluder
C22_Witness ==
    /\ variant = "bg" /\ pc = "rgb_render" /\ f = NumBaseImages + 1
    /\ Len(occ) = MaxOccluders + 1

\* C23: the sampling loops are bounded: ensure_in_fov makes at most max_tries
\* attempts, sample_nonoverlap at most its try budget and returns at most n
\* centers; the randomization of every frame finishes and the run ends after
\* the configured number of frames, whatever the draws.
C23_LoopsBoundedRunEnds ==
    /\ [](/\ Single => tries <= MaxTries
          /\ Multi => (tries <= MaxCenterTries /\ Len(centers) <= nwin))
    /\ (textureOk => <>(pc = "done" /\ f = NumImages))

\* a run ended whose last call of ensure_in_fov used every attempt and
\* accepted none
C23_Witness ==
    /\ pc = "done" /\ f = NumImages
    /\ Single /\ ~fovOk /\ tries = MaxTries

\* C24: when the texture file of the window is missing the run stops while
\* the materials are built: no frame is randomized, nothing is rendered and
\* no image, mask or keypoint file is written.
C24_MissingTextureAborts ==
    ~textureOk =>
        /\ pc \in {"startup", "aborted"}
        /\ f = 0 /\ nwin = 0 /\ occ = << >> /\ centers = << >>
        /\ \A i \in 1..MaxWindows : win[i] = NoWindow /\ twin[i] = NoWindow
        /\ files = {} /\ kpt = << >> /\ journal = << >>

\* a run that stopped at the missing texture
C24_Witness == ~textureOk /\ pc = "aborted"

\* C25: in data_generator.py the excluded collections at a render depend on
\* the pass only: the RGB render has Windows_RGB, Occluders, Backdrop and
\* Misc included and Windows_MASK excluded, the MASK render has Windows_MASK
\* included and Windows_RGB excluded, from the first camera of frame 1 on.
C25_ExcludesByPass ==
    Multi =>
        /\ pc = "rgb_render" =>
              /\ ~excl.windows_rgb /\ ~excl.occluders
              /\ ~excl.backdrop /\ ~excl.misc
              /\ excl.windows_msk
        /\ pc = "mask_render" =>
              /\ ~excl.windows_msk
              /\ excl.windows_rgb

\* the RGB render of a camera that follows the MASK render of another one
C25_Witness == Multi /\ pc = "rgb_render" /\ f = 2 /\ ci = N_CAMERAS

\* C26: in data_generator.py, at every render, the _MSK twin of each pair
\* has the location, rotation, scale and hidden flag of its _RGB object.
C26_TwinsFollow ==
    (Multi /\ pc \in {"rgb_render", "mask_render"}) =>
        \A i \in 1..MaxWindows :
            /\ Pose(twin[i]) = Pose(win[i])
            /\ twin[i].hide = win[i].hide

\* a MASK render with a shown pair away from the identity and a hidden pair
\* that an earlier frame had placed
C26_Witness ==
    /\ Multi /\ pc = "mask_render" /\ f = 2
    /\ \E i, j \in 1..MaxWindows :
          /\ ~win[i].hide /\ Pose(win[i]) # Pose(NewTwin("rgb"))
          /\ win[j].hide /\ Pose(win[j]) # Pose(NewTwin("rgb"))

\* C27: sample_nonoverlap(n) with n >= 1 returns at least one center, the
\* first point drawn being accepted; every frame of data_generator.py has a
\* visible window and every keypoint record lists 1 to MAX_WINDOWS objects.
C27_AtLeastOneWindow ==
    (Multi /\ f >= 1) =>
        /\ nwin >= 1
        /\ Len(centers) >= 1
        /\ Len(Shown) \in 1..MaxWindows
        /\ kpt # << >> =>
              Len(kpt[1].payload.objects) \in 1..MaxWindows

\* a record of a frame whose second point was rejected: one object only
C27_Witness ==
    /\ Multi /\ kpt # << >> /\ nwin = 2
    /\ Len(kpt[1].payload.objects) = 1

====
